---- MODULE Spec2Model ----
(***************************************************************************)
(* Connection lifecycle of geckolib's GeckoSpa (src/src/geckolib/spa.py):  *)
(* the callback-chained handshake, the connectivity check, the keepalive   *)
(* thread and the partial-update handler, together with the transport,     *)
(* the device and the retry-request engine they run against.               *)
(***************************************************************************)
EXTENDS Naturals, Integers, Sequences, FiniteSets, TLC

\* ------------------------------------------------------------------ bounds

\* The clock stops advancing here (seconds of time.monotonic()).
MaxTime == 3
\* Datagrams the transport may lose in one behaviour.
MaxLoss == 1
\* Change records one partial status update carries at most.
MaxChanges == 2
\* Pack commands (set-value, keypress) a session issues at most.
MaxCommands == 2

\* ------------------------------------------------------- program constants

\* GeckoConstants.CONNECTION_TIMEOUT_IN_SECONDS, scaled to the model's clock.
CONNECTION_TIMEOUT_IN_SECONDS == 2
\* GeckoConstants.PING_FREQUENCY_IN_SECONDS, scaled.
PING_FREQUENCY_IN_SECONDS == 1
\* GeckoConstants.PING_DEVICE_NOT_RESPONDING_TIMEOUT, scaled.
PING_DEVICE_NOT_RESPONDING_TIMEOUT == 1
\* Attempt budget of the retry-request engine.
RETRY_ATTEMPTS == 2
\* The bound at which the shared sequence counter wraps.
SeqWrap == 256
\* Bytes of the structure's status block (the selected layout's size), scaled.
BlockLen == 2
\* The largest value of a byte, scaled.
MaxByte == 1

\* ---------------------------------------------------------------- registry

\* Platform keys a device may report in its config-file response.
PlatformKeys == {"InYT", "inyt", "XX"}
\* Structure revisions a device may report.
Revisions == {1, 2}

\* str.lower() on the platform key.
Lower(k) == CASE k = "InYT" -> "inyt"
              [] k = "inyt" -> "inyt"
              [] k = "XX" -> "xx"
              [] OTHER -> k

\* Modules geckolib.driver.packs.<key> that exist.
PackModules == {"inyt"}
\* Modules geckolib.driver.packs.<key>-cfg-<rev> that exist.
ConfigModules == {<<"inyt", 1>>}
\* Modules geckolib.driver.packs.<key>-log-<rev> that exist.
LogModules == {<<"inyt", 2>>}

\* None
None == <<>>

\* ------------------------------------------------------------------- state

VARIABLES
    now,                    \* time.monotonic()
    isopen,                 \* GeckoUdpSocket.isopen
    is_in_error,            \* self.is_in_error
    _is_connected,          \* self._is_connected
    _connection_started,    \* self._connection_started (None or a time)
    _last_ping,             \* self._last_ping
    config_version,         \* self.config_version
    log_version,            \* self.log_version
    pack_type,              \* self.pack_type
    new_pack_class,         \* self.new_pack_class
    new_config_class,       \* self.new_config_class
    new_log_class,          \* self.new_log_class
    had_at_least_one_block, \* self.struct.had_at_least_one_block
    accessors_built,        \* struct.build_accessors has run
    on_connected_calls,     \* times the on_connected callback was invoked
    sequence_counter,       \* the transport's shared sequence counter
    handlers,               \* one-shot receive handlers registered: <<kind, seq>>
    toDevice,               \* datagrams in flight to the device
    toClient,               \* datagrams in flight to the client
    sent,                   \* hello and sequence-numbered requests, in send order
    dispatch,               \* position of the response-dispatch path
    ping_thread,            \* position of _ping_thread_func
    wait_started,           \* time the keepalive wait began
    retry,                  \* the retry_request in progress
    device,                 \* the config-file response handled: key and revisions
    lost,                   \* datagrams lost so far
    replaced_unfilled,      \* replace_status_block_segment was called with
                            \* had_at_least_one_block false
    not_responding,         \* the keepalive's last pass found the device silent
    last_check,             \* outcome of the caller's last is_connected
    raised,                 \* the exception raised last ("none": none yet)
    complete_call,          \* position of the caller's complete()
    status_block,           \* self.struct.status_block, the structure's bytes
    changes,                \* handler.changes of the partial-status handler
    full_block,             \* the block of the last full status response (None: none)
    on_connected_saw,       \* what the on_connected callback found when called:
                            \* _is_connected and whether accessors were built
    pack_command            \* the pack command emitted last (None: none yet)

vars == <<now, isopen, is_in_error, _is_connected, _connection_started, _last_ping,
          config_version, log_version, pack_type, new_pack_class, new_config_class,
          new_log_class, had_at_least_one_block, accessors_built, on_connected_calls,
          sequence_counter, handlers, toDevice, toClient, sent, dispatch,
          ping_thread, wait_started, retry, device, lost,
          replaced_unfilled, not_responding, last_check, raised,
          complete_call, status_block, changes, full_block, on_connected_saw, pack_command>>

\* The fields _on_config_received and _final_connect write.
layout == <<config_version, log_version, pack_type, new_pack_class, new_config_class,
            new_log_class>>
\* The two connection flags and what _final_connect builds.
conn == <<is_in_error, _is_connected, accessors_built, on_connected_calls>>
\* The network and the handler registry.
net == <<handlers, toDevice, toClient, sent, sequence_counter>>
\* The keepalive thread's own state.
keepalive == <<ping_thread, wait_started, not_responding, _last_ping>>

\* The structure's bytes and the partial-status handler's list.
structure == <<status_block, changes, full_block>>
\* What the handshake, the keepalive and the network leave alone: the teardown, the
\* structure's bytes, the callback's view and the pack commands.
apart == <<complete_call, structure, on_connected_saw, pack_command>>

\* The status block of a structure that has not received one: zero bytes.
EmptyBlock == [i \in 1..BlockLen |-> 0]

NoRetry == [owner |-> "none", request |-> <<"none", 0>>, attempts |-> 0]

Init ==
    /\ now = 0
    /\ isopen = FALSE
    /\ is_in_error = FALSE
    /\ _is_connected = FALSE
    /\ _connection_started = None
    /\ _last_ping = 0
    /\ config_version = 0
    /\ log_version = 0
    /\ pack_type = None
    /\ new_pack_class = None
    /\ new_config_class = None
    /\ new_log_class = None
    /\ had_at_least_one_block = FALSE
    /\ accessors_built = FALSE
    /\ on_connected_calls = 0
    /\ sequence_counter = 0
    /\ handlers = {}
    /\ toDevice = {}
    /\ toClient = {}
    /\ sent = <<>>
    /\ dispatch = "idle"
    /\ ping_thread = "unstarted"
    /\ wait_started = 0
    /\ retry = NoRetry
    /\ device = None
    /\ lost = 0
    /\ replaced_unfilled = FALSE
    /\ not_responding = FALSE
    /\ last_check = "none"
    /\ raised = "none"
    /\ complete_call = "none"
    /\ status_block = EmptyBlock
    /\ changes = <<>>
    /\ full_block = None
    /\ on_connected_saw = None
    /\ pack_command = None

\* ------------------------------------------------------------- transport

\* get_and_increment_sequence_counter: the value handed out is the current one.
NextSequence(s) == (s + 1) % SeqWrap

\* queue_send of a sequence-numbered request (or hello) to the device.
QueueSend(msg) ==
    /\ toDevice' = toDevice \cup {msg}
    /\ sent' = Append(sent, msg)

\* time.monotonic() advances.
Tick ==
    /\ now < MaxTime
    /\ now' = now + 1
    /\ UNCHANGED <<apart, isopen, conn, _connection_started, layout,
                   had_at_least_one_block, net, dispatch, keepalive, retry, device, lost, replaced_unfilled, last_check,
                   raised>>


\* ---------------------------------------------------------- retry engine

\* struct.retry_request, its first transmission: the request's handler is registered,
\* the request is sent, and the calling execution waits for the match.
BeginRetry(owner, request, registered, queued) ==
    /\ retry' = [owner |-> owner, request |-> request, attempts |-> 1]
    /\ handlers' = registered \cup {request}
    /\ toDevice' = queued \cup {request}
    /\ sent' = Append(sent, request)
    /\ sequence_counter' = NextSequence(sequence_counter)

\* Neither the request nor its response is under way any more.
Undeliverable(request) == request \notin toDevice /\ request \notin toClient

\* The engine's wait timed out with attempts left: the request is sent again.
RetryResend ==
    /\ retry.owner # "none"
    /\ isopen
    /\ Undeliverable(retry.request)
    /\ retry.attempts < RETRY_ATTEMPTS
    /\ retry' = [retry EXCEPT !.attempts = @ + 1]
    /\ QueueSend(retry.request)
    /\ UNCHANGED <<apart, now, isopen, conn, _connection_started, layout,
                   had_at_least_one_block, handlers, toClient, sequence_counter,
                   dispatch, keepalive, device, lost, replaced_unfilled, last_check, raised>>

\* The matching status-block response arrived: the structure takes the block it
\* carries and the waiting execution resumes.
StatusBlockMatched(block) ==
    /\ retry.owner # "none"
    /\ isopen
    /\ retry.request \in toClient
    /\ retry.request \in handlers
    /\ had_at_least_one_block' = TRUE
    /\ status_block' = block
    /\ full_block' = block
    /\ handlers' = handlers \ {retry.request}
    /\ toClient' = toClient \ {retry.request}
    /\ retry' = NoRetry
    /\ IF retry.owner = "dispatch"
         THEN /\ dispatch' = "idle"
              /\ UNCHANGED <<ping_thread, wait_started>>
         ELSE /\ ping_thread' = "wait"
              /\ wait_started' = now
              /\ UNCHANGED dispatch
    /\ UNCHANGED <<complete_call, changes, on_connected_saw, pack_command, now, isopen,
                   conn, _connection_started, layout, toDevice, sent,
                   sequence_counter, not_responding, _last_ping, device,
                   lost, replaced_unfilled, last_check, raised>>

\* The response as the session-level specifications follow it: the block's bytes are
\* left out (every byte is zero).
RetryMatched == StatusBlockMatched(EmptyBlock)

\* The status blocks a device sends.
Blocks == [1..BlockLen -> 0..MaxByte]

\* The response with the bytes of its block.
OnStatusBlock == \E block \in Blocks : StatusBlockMatched(block)

\* The attempt budget is spent (or the transport is closed): retry_request fails with
\* a delivery timeout in the calling execution and leaves no handler behind.
RetryFailed ==
    /\ retry.owner # "none"
    /\ \/ ~isopen
       \/ Undeliverable(retry.request) /\ retry.attempts >= RETRY_ATTEMPTS
    /\ handlers' = handlers \ {retry.request}
    /\ retry' = NoRetry
    /\ raised' = "DeliveryTimeout"
    /\ IF retry.owner = "dispatch"
         THEN dispatch' = "idle" /\ UNCHANGED ping_thread
         ELSE ping_thread' = "dead" /\ UNCHANGED dispatch
    /\ UNCHANGED <<apart, now, isopen, conn, _connection_started, layout,
                   had_at_least_one_block, toDevice, toClient, sent, sequence_counter,
                   wait_started, not_responding, _last_ping, device, lost,
                   replaced_unfilled, last_check>>

\* ------------------------------------------------------------------ device

\* The device takes one request and answers it. The response carries the request's
\* kind and sequence number. (Hello is not answered and is not tracked in flight;
\* what is under way when the transport closes never reaches the client, so the
\* network's steps are followed only while it is open.)
DeviceAnswer ==
    \E req \in toDevice :
        /\ isopen
        /\ toDevice' = toDevice \ {req}
        /\ toClient' = toClient \cup {req}
        /\ UNCHANGED <<apart, now, isopen, conn, _connection_started, layout,
                       had_at_least_one_block, handlers, sent, sequence_counter,
                       dispatch, keepalive, retry, device, lost, replaced_unfilled, last_check,
                       raised>>

\* The transport loses a datagram, in either direction.
Lose ==
    /\ isopen
    /\ lost < MaxLoss
    /\ lost' = lost + 1
    /\ \/ \E m \in toDevice : toDevice' = toDevice \ {m} /\ UNCHANGED toClient
       \/ \E m \in toClient : toClient' = toClient \ {m} /\ UNCHANGED toDevice
    /\ UNCHANGED <<apart, now, isopen, conn, _connection_started, layout,
                   had_at_least_one_block, handlers, sent, sequence_counter, dispatch,
                   keepalive, retry, device, replaced_unfilled, last_check, raised>>


\* --------------------------------------------------------------- handshake

\* start_connect: record the start time, open the transport, send hello, register the
\* ping handler, start the ping thread, then request the version. It is called once,
\* on a new session (GeckoSpaDescriptor.get_facade).
StartConnect ==
    /\ ping_thread = "unstarted"
    /\ _connection_started' = <<now>>
    /\ isopen' = TRUE
    /\ ping_thread' = "top"
    /\ handlers' = handlers \cup {<<"ping", -1>>, <<"version", sequence_counter>>}
    /\ toDevice' = toDevice \cup {<<"version", sequence_counter>>}
    /\ sent' = sent \o <<(<<"hello", -1>>), (<<"version", sequence_counter>>)>>
    /\ sequence_counter' = NextSequence(sequence_counter)
    /\ UNCHANGED <<apart, now, conn, layout, had_at_least_one_block, toClient, dispatch,
                   wait_started, not_responding, _last_ping, retry,
                   device, lost, replaced_unfilled, last_check, raised>>

\* The dispatch path has a response whose one-shot handler is registered.
Dispatchable(msg) ==
    /\ isopen
    /\ dispatch = "idle"
    /\ msg \in toClient
    /\ msg \in handlers

\* A request numbered without reading the shared counter.
NextRequest_Unnumbered(kind) == <<kind, 0>>

\* The request a completion callback sends next: its kind, numbered from the counter.
NextRequest(kind) == <<kind, sequence_counter>>

\* _on_version_received: record the versions, then request the channel.
OnVersionReceived ==
    \E msg \in toClient :
        /\ msg[1] = "version"
        /\ Dispatchable(msg)
        /\ handlers' = (handlers \ {msg}) \cup {NextRequest("channel")}
        /\ toClient' = toClient \ {msg}
        /\ QueueSend(NextRequest("channel"))
        /\ sequence_counter' = NextSequence(sequence_counter)
        /\ UNCHANGED <<apart, now, isopen, conn, _connection_started, layout,
                       had_at_least_one_block, dispatch, keepalive, retry, device,
                       lost, replaced_unfilled, last_check, raised>>

\* _on_channel_received: record channel and signal, then request the config file.
OnChannelReceived ==
    \E msg \in toClient :
        /\ msg[1] = "channel"
        /\ Dispatchable(msg)
        /\ handlers' = (handlers \ {msg}) \cup {NextRequest("config")}
        /\ toClient' = toClient \ {msg}
        /\ QueueSend(NextRequest("config"))
        /\ sequence_counter' = NextSequence(sequence_counter)
        /\ UNCHANGED <<apart, now, isopen, conn, _connection_started, layout,
                       had_at_least_one_block, dispatch, keepalive, retry, device,
                       lost, replaced_unfilled, last_check, raised>>

\* The lookups made with the platform key as reported, not lower-cased.
ResolveLayouts_CaseSensitive(key, config, log) ==
    IF key \notin PackModules
      THEN [pack |-> None, config |-> None, log |-> None, error |-> "NoSpaPack"]
    ELSE IF <<key, config>> \notin ConfigModules
      THEN [pack |-> <<key>>, config |-> None, log |-> None, error |-> "NoConfigStruct"]
    ELSE IF <<key, log>> \notin LogModules
      THEN [pack |-> <<key>>, config |-> <<key, config>>, log |-> None,
            error |-> "NoLogStruct"]
    ELSE [pack |-> <<key>>, config |-> <<key, config>>, log |-> <<key, log>>,
          error |-> "none"]

\* The lookups with a missing log-layout module passing unnoticed.
ResolveLayouts_LogUnchecked(key, config, log) ==
    IF Lower(key) \notin PackModules
      THEN [pack |-> None, config |-> None, log |-> None, error |-> "NoSpaPack"]
    ELSE IF <<Lower(key), config>> \notin ConfigModules
      THEN [pack |-> <<Lower(key)>>, config |-> None, log |-> None,
            error |-> "NoConfigStruct"]
    ELSE [pack |-> <<Lower(key)>>, config |-> <<Lower(key), config>>,
          log |-> <<Lower(key), log>>, error |-> "none"]

\* The lookups with a missing config-layout module passing unnoticed.
ResolveLayouts_ConfigUnchecked(key, config, log) ==
    IF Lower(key) \notin PackModules
      THEN [pack |-> None, config |-> None, log |-> None, error |-> "NoSpaPack"]
    ELSE IF <<Lower(key), log>> \notin LogModules
      THEN [pack |-> <<Lower(key)>>, config |-> <<Lower(key), config>>, log |-> None,
            error |-> "NoLogStruct"]
    ELSE [pack |-> <<Lower(key)>>, config |-> <<Lower(key), config>>,
          log |-> <<Lower(key), log>>, error |-> "none"]

\* The three importlib lookups of _on_config_received, in order, stopping at the first
\* module that is not found: what each class field becomes and the error raised.
ResolveLayouts(key, config, log) ==
    IF Lower(key) \notin PackModules
      THEN [pack |-> None, config |-> None, log |-> None, error |-> "NoSpaPack"]
    ELSE IF <<Lower(key), config>> \notin ConfigModules
      THEN [pack |-> <<Lower(key)>>, config |-> None, log |-> None,
            error |-> "NoConfigStruct"]
    ELSE IF <<Lower(key), log>> \notin LogModules
      THEN [pack |-> <<Lower(key)>>, config |-> <<Lower(key), config>>, log |-> None,
            error |-> "NoLogStruct"]
    ELSE [pack |-> <<Lower(key)>>, config |-> <<Lower(key), config>>,
          log |-> <<Lower(key), log>>, error |-> "none"]

\* _on_config_received: stash the revisions, resolve pack, config layout and log
\* layout; a failed lookup marks the session errored and raises; otherwise the full
\* status block is requested through struct.retry_request, inside the callback.
OnConfigReceived ==
    \E msg \in toClient, key \in PlatformKeys, config \in Revisions, log \in Revisions :
        /\ msg[1] = "config"
        /\ Dispatchable(msg)
        /\ device' = <<key, config, log>>
        /\ LET found == ResolveLayouts(key, config, log) IN
            /\ config_version' = config
            /\ log_version' = log
            /\ new_pack_class' = IF found.pack = None THEN new_pack_class ELSE found.pack
            /\ pack_type' = IF found.pack = None THEN pack_type
                            ELSE <<found.pack[1], "type">>
            /\ new_config_class' = IF found.config = None THEN new_config_class
                                   ELSE found.config
            /\ new_log_class' = IF found.log = None THEN new_log_class ELSE found.log
            /\ IF found.error = "none"
                 THEN /\ BeginRetry("dispatch", NextRequest("status_full"),
                                    handlers \ {msg}, toDevice)
                      /\ dispatch' = "retry_request"
                      /\ UNCHANGED <<is_in_error, raised>>
                 ELSE /\ is_in_error' = TRUE
                      /\ raised' = found.error
                      /\ handlers' = handlers \ {msg}
                      /\ UNCHANGED <<toDevice, sent, sequence_counter, retry, dispatch>>
            /\ toClient' = toClient \ {msg}
        /\ UNCHANGED <<apart, now, isopen, _is_connected, accessors_built, on_connected_calls,
                       _connection_started, had_at_least_one_block, keepalive, lost,
                       replaced_unfilled, last_check>>


\* ------------------------------------------------------- connection state

\* _final_connect: without both layout classes the session is marked errored and
\* AttributeError is raised; otherwise the accessors are built, the session is marked
\* connected and on_connected (taken to be registered) is called.
FinalConnect ==
    IF new_config_class = None \/ new_log_class = None
      THEN /\ is_in_error' = TRUE
           /\ raised' = "AttributeError"
           /\ UNCHANGED <<_is_connected, accessors_built, on_connected_calls,
                          on_connected_saw>>
      ELSE /\ accessors_built' = TRUE
           /\ _is_connected' = TRUE
           /\ on_connected_calls' = on_connected_calls + 1
           /\ on_connected_saw' = <<_is_connected', accessors_built'>>
           /\ UNCHANGED <<is_in_error, raised>>

\* _loop_func finalizing without waiting for the first full block.
ShouldFinalConnect_BlockUnchecked == ~_is_connected /\ isopen

\* _loop_func going on although the session is connected already.
ShouldFinalConnect_ConnectedUnchecked == isopen /\ had_at_least_one_block

\* _loop_func finalizing on a closed transport.
ShouldFinalConnect_OpenUnchecked == ~_is_connected /\ had_at_least_one_block

\* Whether _loop_func goes on to _final_connect.
ShouldFinalConnect == ~_is_connected /\ isopen /\ had_at_least_one_block

\* _loop_func, called from the transport's loop.
LoopFunc ==
    /\ IF ShouldFinalConnect
         THEN FinalConnect
         ELSE UNCHANGED <<conn, raised, on_connected_saw>>
    /\ UNCHANGED <<complete_call, structure, pack_command, now, isopen, _connection_started, layout, had_at_least_one_block,
                   net, dispatch, keepalive, retry, device, lost, replaced_unfilled, last_check>>

\* is_connected raising as soon as the elapsed time reaches the timeout.
IsConnectedOutcome_AtTimeout(connected, started, t) ==
    IF connected THEN "true"
    ELSE IF t - started >= CONNECTION_TIMEOUT_IN_SECONDS THEN "timeout"
    ELSE "false"

\* is_connected enforcing the timeout before it looks at _is_connected.
IsConnectedOutcome_TimeoutFirst(connected, started, t) ==
    IF t - started > CONNECTION_TIMEOUT_IN_SECONDS THEN "timeout"
    ELSE IF connected THEN "true"
    ELSE "false"

\* The is_connected property: "true", "false", or "timeout" when it raises.
IsConnectedOutcome(connected, started, t) ==
    IF connected THEN "true"
    ELSE IF t - started > CONNECTION_TIMEOUT_IN_SECONDS THEN "timeout"
    ELSE "false"

\* The caller polls is_connected. The facade that polls is built from start_connect()'s
\* return value, so the property is read on started sessions only.
IsConnected ==
    /\ _connection_started # None
    /\ LET outcome == IsConnectedOutcome(_is_connected, _connection_started[1], now) IN
        /\ last_check' = outcome
        /\ is_in_error' = IF outcome = "timeout" THEN TRUE ELSE is_in_error
        /\ raised' = IF outcome = "timeout" THEN "ConnectTimeout" ELSE raised
    /\ UNCHANGED <<apart, now, isopen, _is_connected, accessors_built, on_connected_calls,
                   _connection_started, layout, had_at_least_one_block, net, dispatch,
                   keepalive, retry, device, lost, replaced_unfilled>>

\* complete(), up to its join: close the transport, then wait for the ping thread.
Complete ==
    /\ isopen
    /\ isopen' = FALSE
    /\ complete_call' = "join"
    /\ UNCHANGED <<structure, on_connected_saw, pack_command, now, conn, _connection_started,
                   layout, had_at_least_one_block, net, dispatch, keepalive, retry,
                   device, lost, replaced_unfilled, last_check, raised>>

\* Thread.join returning at once, whether or not the thread has ended.
Joined_NotAwaited(thread) == thread # "unstarted"

\* Thread.join() returns: the thread was started and its function has returned or
\* raised.
Joined(thread) == thread \in {"dead", "finished"}

\* complete() returns from self._ping_thread.join().
CompleteReturns ==
    /\ complete_call = "join"
    /\ Joined(ping_thread)
    /\ complete_call' = "returned"
    /\ UNCHANGED <<structure, on_connected_saw, pack_command, now, isopen, conn,
                   _connection_started, layout, had_at_least_one_block, net, dispatch,
                   keepalive, retry, device, lost, replaced_unfilled, last_check, raised>>

\* ------------------------------------------------------ unsolicited traffic

\* GeckoStructure.replace_status_block_segment(pos, data): the bytes of data replace
\* the block's bytes from offset pos on.
ReplaceStatusBlockSegment(block, pos, data) ==
    [i \in 1..BlockLen |-> IF pos < i /\ i <= pos + Len(data) THEN data[i - pos]
                                                              ELSE block[i]]

\* The loop over handler.changes taken from the last record to the first.
RECURSIVE ApplyChanges_Reversed(_, _)
ApplyChanges_Reversed(block, list) ==
    IF list = <<>> THEN block
    ELSE ReplaceStatusBlockSegment(ApplyChanges_Reversed(block, Tail(list)),
                                   Head(list)[1], Head(list)[2])

\* for change in handler.changes: replace_status_block_segment(change[0], change[1])
RECURSIVE ApplyChanges(_, _)
ApplyChanges(block, list) ==
    IF list = <<>> THEN block
    ELSE ApplyChanges(ReplaceStatusBlockSegment(block, Head(list)[1], Head(list)[2]),
                      Tail(list))

\* The handler's list left as it was after the loop.
Cleared_Kept(list) == list

\* handler.changes.clear(), the loop's else branch (the loop has no break).
Cleared(list) == <<>>

\* _on_partial_status_update with this list as handler.changes: every record of the
\* list goes to struct.replace_status_block_segment, then the list is cleared.
HandlePartialStatus(list) ==
    /\ status_block' = ApplyChanges(status_block, list)
    /\ changes' = Cleared(list)
    /\ replaced_unfilled' =
           (replaced_unfilled \/ (Len(list) > 0 /\ ~had_at_least_one_block))
    /\ UNCHANGED <<complete_call, full_block, on_connected_saw, pack_command, now, isopen, conn,
                   _connection_started, layout, had_at_least_one_block, net,
                   keepalive, retry, device, lost, last_check, raised>>

\* The dispatch of a partial status update the device pushes unsolicited, as the
\* session-level specifications follow it: the update carries n change records whose
\* bytes are left out (each record patches no byte); the protocol handler appends
\* them to its list and calls _on_partial_status_update, in one step.
OnPartialStatusUpdate ==
    \E n \in 0..MaxChanges :
        /\ isopen
        /\ dispatch = "idle"
        /\ HandlePartialStatus(changes \o [i \in 1..n |-> <<0, <<>>>>])
        /\ UNCHANGED dispatch

\* Change records (pos, data) inside the block.
Records ==
    UNION {{<<pos, data>> : data \in [1..length -> 0..MaxByte]} :
             <<pos, length>> \in {pl \in (0..(BlockLen - 1)) \X (1..BlockLen) :
                                    pl[1] + pl[2] <= BlockLen}}

\* Updates of up to MaxChanges change records.
Updates == UNION {[1..n -> Records] : n \in 0..MaxChanges}

\* The dispatch with the records' bytes, its first half: the protocol handler matches
\* the update and appends its records to its list.
PartialStatusReceived ==
    \E records \in Updates :
        /\ isopen
        /\ dispatch = "idle"
        /\ changes' = changes \o records
        /\ dispatch' = "partial_status"
        /\ UNCHANGED <<complete_call, status_block, full_block, on_connected_saw, pack_command,
                       now, isopen, conn, _connection_started, layout,
                       had_at_least_one_block, net, keepalive, retry, device, lost,
                       replaced_unfilled, last_check, raised>>

\* Its second half: the protocol handler calls _on_partial_status_update.
OnPartialStatusHandled ==
    /\ dispatch = "partial_status"
    /\ HandlePartialStatus(changes)
    /\ dispatch' = "idle"

\* _on_ping_response: the device's answer to a ping is matched by the ping handler
\* (pings carry no sequence number and are not tracked in flight).
OnPingResponse ==
    /\ isopen
    /\ dispatch = "idle"
    /\ <<"ping", -1>> \in handlers
    /\ _last_ping # now
    /\ _last_ping' = now
    /\ UNCHANGED <<apart, now, isopen, conn, _connection_started, layout,
                   had_at_least_one_block, net, dispatch, ping_thread, wait_started,
                   not_responding, retry, device, lost, replaced_unfilled, last_check,
                   raised>>

\* A duplicate of a response already handled: its one-shot handler was removed on
\* the first match, so nothing matches it and the dispatch path drops it.
DuplicateResponse ==
    \E i \in 1..Len(sent) :
        /\ sent[i][1] # "hello"
        /\ sent[i] \notin handlers
        /\ sent[i] \notin toDevice
        /\ sent[i] \notin toClient
        /\ isopen
        /\ dispatch = "idle"
        /\ UNCHANGED vars

\* ------------------------------------------------------------- pack commands

\* Pack commands issued so far.
CommandsIssued ==
    Cardinality({i \in 1..Len(sent) : sent[i][1] \in {"set_value", "keypress"}})

\* set_value framing the command with the config and log revisions exchanged.
SetValueFrame_RevisionsSwapped(seq, type, config, log, pos, length, newvalue) ==
    <<"set_value", seq, type, log, config, pos, length, newvalue>>

\* GeckoPackCommandProtocolHandler.set_value(seq, pack_type, config_version,
\* log_version, pos, length, newvalue): the arguments in the order they are passed.
SetValueFrame(seq, type, config, log, pos, length, newvalue) ==
    <<"set_value", seq, type, config, log, pos, length, newvalue>>

\* GeckoPackCommandProtocolHandler.keypress(seq, pack_type, keypad).
KeypressFrame(seq, type, keypad) == <<"keypress", seq, type, keypad>>

\* The writes an accessor stages: (pos, length, newvalue).
Writes == {<<0, 1, 2>>, <<1, 2, 0>>}

\* _on_set_value(pos, length, newvalue), the structure's value-change callback: a pack
\* command handler is registered and one set-value command is sent. The structure
\* calls it from an accessor's write, so accessors have been built. (The command's
\* acknowledgement has no callback and is not followed in flight.)
OnSetValue ==
    \E write \in Writes :
      LET pos == write[1]
          length == write[2]
          newvalue == write[3]
      IN
        /\ accessors_built
        /\ isopen
        /\ CommandsIssued < MaxCommands
        /\ handlers' = handlers \cup {<<"pack_command", -1>>}
        /\ sent' = Append(sent, NextRequest("set_value"))
        /\ pack_command' = SetValueFrame(sequence_counter, pack_type, config_version,
                                         log_version, pos, length, newvalue)
        /\ sequence_counter' = NextSequence(sequence_counter)
        /\ UNCHANGED <<complete_call, structure, on_connected_saw, now, isopen, conn,
                       _connection_started, layout, had_at_least_one_block, toDevice,
                       toClient, dispatch, keepalive, retry, device, lost,
                       replaced_unfilled, last_check, raised>>

\* Keypads a caller presses.
Keypads == {1}

\* press(keypad): a pack command handler is registered and one keypress command is
\* sent, on a started session.
Press ==
    \E keypad \in Keypads :
        /\ isopen
        /\ CommandsIssued < MaxCommands
        /\ handlers' = handlers \cup {<<"pack_command", -1>>}
        /\ sent' = Append(sent, NextRequest("keypress"))
        /\ pack_command' = KeypressFrame(sequence_counter, pack_type, keypad)
        /\ sequence_counter' = NextSequence(sequence_counter)
        /\ UNCHANGED <<complete_call, structure, on_connected_saw, now, isopen, conn,
                       _connection_started, layout, had_at_least_one_block, toDevice,
                       toClient, dispatch, keepalive, retry, device, lost,
                       replaced_unfilled, last_check, raised>>

\* ---------------------------------------------------------------- keepalive

\* refresh() going on to its request whenever is_connected did not raise.
RefreshRequests_Unchecked(outcome) == outcome # "timeout"

\* refresh() returns without a request unless is_connected is true.
RefreshRequests(outcome) == outcome = "true"

\* GeckoStatusBlockProtocolHandler.request(seq, new_log_class.begin,
\* new_log_class.end): the request is scoped by the log layout class.
RefreshRequest == <<"status_range", sequence_counter, new_log_class>>

\* One pass of _ping_thread_func's loop up to its wait: leave when the transport is
\* closed; otherwise send a ping and refresh(). refresh() reads is_connected: it
\* returns when not connected, lets the connect timeout propagate (which ends the
\* thread), and when connected requests the log range through struct.retry_request.
PingIteration ==
    /\ ping_thread = "top"
    /\ IF ~isopen
         THEN /\ ping_thread' = "finished"
              /\ UNCHANGED <<is_in_error, raised, net, retry, wait_started>>
         ELSE LET outcome ==
                    IsConnectedOutcome(_is_connected, _connection_started[1], now) IN
              CASE RefreshRequests(outcome) ->
                        /\ BeginRetry("ping", RefreshRequest, handlers, toDevice)
                        /\ toClient' = toClient
                        /\ ping_thread' = "refresh"
                        /\ UNCHANGED <<is_in_error, raised, wait_started>>
                   [] outcome = "timeout" ->
                        /\ is_in_error' = TRUE
                        /\ raised' = "ConnectTimeout"
                        /\ ping_thread' = "dead"
                        /\ UNCHANGED <<net, retry, wait_started>>
                   [] OTHER ->
                        /\ ping_thread' = "wait"
                        /\ wait_started' = now
                        /\ UNCHANGED <<is_in_error, raised, net, retry>>
    /\ UNCHANGED <<apart, now, isopen, _is_connected, accessors_built, on_connected_calls,
                   _connection_started, layout, had_at_least_one_block, dispatch,
                   not_responding, _last_ping, device, lost, replaced_unfilled, last_check>>

\* The device counted silent as soon as the silence reaches the threshold.
DeviceNotResponding_AtThreshold(t, last) ==
    t - last >= PING_DEVICE_NOT_RESPONDING_TIMEOUT

\* time.monotonic() - self._last_ping > PING_DEVICE_NOT_RESPONDING_TIMEOUT
DeviceNotResponding(t, last) == t - last > PING_DEVICE_NOT_RESPONDING_TIMEOUT

\* The wait of PING_FREQUENCY_IN_SECONDS is over; a device silent for longer than
\* PING_DEVICE_NOT_RESPONDING_TIMEOUT is logged, and the loop goes round.
PingWaited ==
    /\ ping_thread = "wait"
    /\ now - wait_started >= PING_FREQUENCY_IN_SECONDS \/ ~isopen
    /\ not_responding' = DeviceNotResponding(now, _last_ping)
    /\ ping_thread' = "top"
    /\ UNCHANGED <<apart, now, isopen, conn, _connection_started, layout,
                   had_at_least_one_block, net, dispatch, wait_started, 
                   _last_ping, retry, device, lost, replaced_unfilled, last_check, raised>>

\* --------------------------------------------------------- specification

Next ==
    \/ Tick
    \/ StartConnect
    \/ OnVersionReceived
    \/ OnChannelReceived
    \/ OnConfigReceived
    \/ RetryResend
    \/ RetryMatched
    \/ RetryFailed
    \/ LoopFunc
    \/ IsConnected
    \/ Complete
    \/ CompleteReturns
    \/ OnPartialStatusUpdate
    \/ OnPingResponse
    \/ DuplicateResponse
    \/ PingIteration
    \/ PingWaited
    \/ DeviceAnswer
    \/ Lose

Spec == Init /\ [][Next]_vars


\* A transport that loses nothing, a session that is not torn down.
NextReliable ==
    \/ Tick
    \/ StartConnect
    \/ OnVersionReceived
    \/ OnChannelReceived
    \/ OnConfigReceived
    \/ RetryMatched
    \/ LoopFunc
    \/ IsConnected
    \/ OnPartialStatusUpdate
    \/ OnPingResponse
    \/ PingIteration
    \/ PingWaited
    \/ DeviceAnswer

\* The device answers every request, the dispatch path handles every response it
\* holds, and the transport's loop keeps calling _loop_func.
ReliableSpec ==
    /\ Init
    /\ [][NextReliable]_vars
    /\ WF_vars(DeviceAnswer)
    /\ WF_vars(OnVersionReceived)
    /\ WF_vars(OnChannelReceived)
    /\ WF_vars(OnConfigReceived)
    /\ WF_vars(RetryMatched)
    /\ WF_vars(LoopFunc)

\* A transport that loses nothing, a session that is torn down at some point.
NextTeardown ==
    \/ NextReliable
    \/ Complete
    \/ CompleteReturns
    \/ RetryFailed

\* The ping thread is scheduled, its wait ends with the period or with the close, the
\* retry engine gives up on a closed transport, and join returns once the thread ended.
TeardownSpec ==
    /\ Init
    /\ [][NextTeardown]_vars
    /\ WF_vars(PingIteration)
    /\ WF_vars(PingWaited)
    /\ WF_vars(RetryFailed)
    /\ WF_vars(CompleteReturns)

\* The session with its commands: the caller presses keys and writes values, and the
\* transport may lose a datagram, which the retry engine sends again.
NextCommands ==
    \/ StartConnect
    \/ DeviceAnswer
    \/ OnVersionReceived
    \/ OnChannelReceived
    \/ OnConfigReceived
    \/ RetryMatched
    \/ LoopFunc
    \/ PingIteration
    \/ OnSetValue
    \/ Press
    \/ Lose
    \/ RetryResend

CommandSpec == Init /\ [][NextCommands]_vars

\* The session with the bytes of its structure: a handshake over a loss-free
\* transport, status blocks and partial updates with their bytes.
NextStructure ==
    \/ StartConnect
    \/ DeviceAnswer
    \/ OnVersionReceived
    \/ OnChannelReceived
    \/ OnConfigReceived
    \/ OnStatusBlock
    \/ LoopFunc
    \/ PingIteration
    \/ PartialStatusReceived
    \/ OnPartialStatusHandled

StructureSpec == Init /\ [][NextStructure]_vars

\* ------------------------------------------------------------------ typing

TypeOK ==
    /\ now \in 0..MaxTime
    /\ isopen \in BOOLEAN
    /\ is_in_error \in BOOLEAN
    /\ _is_connected \in BOOLEAN
    /\ _connection_started = None \/ _connection_started[1] \in 0..MaxTime
    /\ _last_ping \in 0..MaxTime
    /\ had_at_least_one_block \in BOOLEAN
    /\ dispatch \in {"idle", "retry_request", "partial_status"}
    /\ ping_thread \in {"unstarted", "top", "refresh", "wait", "dead", "finished"}
    /\ retry.owner \in {"none", "dispatch", "ping"}
    /\ (retry.owner = "dispatch") = (dispatch = "retry_request")
    /\ (retry.owner = "ping") = (ping_thread = "refresh")
    /\ last_check \in {"none", "true", "false", "timeout"}
    /\ lost \in 0..MaxLoss
    /\ complete_call \in {"none", "join", "returned"}
    /\ status_block \in [1..BlockLen -> 0..MaxByte]
    /\ on_connected_saw \in {None, <<TRUE, TRUE>>, <<TRUE, FALSE>>, <<FALSE, TRUE>>,
                            <<FALSE, FALSE>>}

\* --------------------------------------------------------------- the claims

\* The registry resolves pack, config layout and log layout for what the device
\* reports (the platform key compared case-insensitively).
Resolves(key, config, log) ==
    /\ Lower(key) \in PackModules
    /\ <<Lower(key), config>> \in ConfigModules
    /\ <<Lower(key), log>> \in LogModules

\* The config-file response has been handled and one of its lookups failed.
LookupFailed == device # None /\ ~Resolves(device[1], device[2], device[3])

\* s is a prefix of t.
IsPrefix(s, t) == Len(s) <= Len(t) /\ \A i \in 1..Len(s) : s[i] = t[i]

\* The kinds of the handshake's sends, in send order (refresh requests left out).
HandshakeKinds ==
    LET kinds == [i \in 1..Len(sent) |-> sent[i][1]]
        IsHandshake(k) == k # "status_range"
    IN SelectSeq(kinds, IsHandshake)

HandshakeOrder == <<"hello", "version", "channel", "config", "status_full">>

\* The response whose completion callback issues a request of this kind.
Precedes(kind) == CASE kind = "channel" -> "version"
                    [] kind = "config" -> "channel"
                    [] kind = "status_full" -> "config"
                    [] OTHER -> "none"

\* The elapsed time since start_connect.
Elapsed == now - _connection_started[1]

\* C1: with a registry that resolves the reported triple and a device that answers every
\* request, hello, version, channel, config-file and full-status requests are sent in
\* that order, each once; each request after the version request is issued in the step
\* that handles the previous response; and the session ends connected.
C1_HandshakeRunsInOrder ==
    /\ [](IsPrefix(HandshakeKinds, HandshakeOrder))
    /\ [](_is_connected => HandshakeKinds = HandshakeOrder /\ had_at_least_one_block)
    /\ [][\A k \in {"channel", "config", "status_full"} :
            (Len(sent') = Len(sent) + 1 /\ sent'[Len(sent')][1] = k)
              => \E m \in toClient : /\ m[1] = Precedes(k)
                                     /\ m \in handlers
                                     /\ m \notin toClient'
                                     /\ m \notin handlers']_vars
    /\ (_connection_started # None) ~> (_is_connected \/ LookupFailed)

\* C1 witness: the handshake has run to the end for a triple the registry resolves.
C1_Witness ==
    /\ _is_connected
    /\ device # None /\ Resolves(device[1], device[2], device[3])
    /\ HandshakeKinds = HandshakeOrder


\* The error the first failing lookup raises.
LookupError(key, config, log) ==
    IF Lower(key) \notin PackModules THEN "NoSpaPack"
    ELSE IF <<Lower(key), config>> \notin ConfigModules THEN "NoConfigStruct"
    ELSE "NoLogStruct"

\* How many requests of this kind have been sent.
TimesSent(kind) == Cardinality({i \in 1..Len(sent) : sent[i][1] = kind})

\* C2: when the pack, config-layout or log-layout lookup fails for what the config-file
\* response carries, _on_config_received marks the session errored and raises the
\* lookup's error, sends nothing and leaves the dispatch path free; no full status
\* request is ever sent and the config-file request is not sent again.
C2_LookupFailureEndsHandshake ==
    /\ [][(device = None /\ device' # None /\ ~Resolves(device'[1], device'[2], device'[3]))
            => /\ is_in_error'
               /\ raised' = LookupError(device'[1], device'[2], device'[3])
               /\ sent' = sent
               /\ toDevice' = toDevice
               /\ dispatch' = "idle"]_vars
    /\ [](LookupFailed => /\ is_in_error
                          /\ TimesSent("status_full") = 0
                          /\ TimesSent("config") = 1
                          /\ retry.owner = "none")

\* C2 witness: the pack and the config layout were found, the log layout was not.
C2_Witness ==
    /\ LookupFailed
    /\ raised = "NoLogStruct"
    /\ new_config_class # None
    /\ new_log_class = None

\* C3: the session is never both errored and connected (an errored session does not
\* become connected afterwards).
C3_ErrorIsTerminal == ~(is_in_error /\ _is_connected)

\* C4: after a lookup failure in the config-file step the session never becomes
\* connected and never receives a full block, and the error flag, once set, stays set.
C4_LookupFailureAbortsHandshake ==
    /\ [](LookupFailed => ~_is_connected /\ ~had_at_least_one_block /\ is_in_error)
    /\ [][is_in_error => is_in_error']_vars

\* C4 witness: a lookup failed, and afterwards the clock ran past the connection timeout
\* and the keepalive's refresh raised it (the last exception is the timeout's).
C4_Witness ==
    /\ LookupFailed
    /\ raised = "ConnectTimeout"
    /\ ping_thread = "dead"
    /\ is_in_error
    /\ ~_is_connected

\* Every variable but the outcome of the caller's check.
exceptLastCheck ==
    <<apart, now, isopen, is_in_error, _is_connected, _connection_started, _last_ping, layout,
      had_at_least_one_block, accessors_built, on_connected_calls, net, dispatch,
      ping_thread, wait_started, not_responding, retry, device, lost, replaced_unfilled, raised>>

\* C5: on a started session that is not connected, is_connected returns false and
\* changes nothing while the elapsed time does not exceed the connection timeout; once
\* it does, is_connected raises the timeout error and sets the error flag.
C5_CheckBeforeConnected ==
    [][(IsConnected /\ ~_is_connected)
         => IF Elapsed <= CONNECTION_TIMEOUT_IN_SECONDS
              THEN last_check' = "false" /\ UNCHANGED exceptLastCheck
              ELSE last_check' = "timeout" /\ is_in_error' /\ raised' = "ConnectTimeout"]_vars

\* C5 witness: the check has raised on a session that never connected.
C5_Witness ==
    /\ last_check = "timeout"
    /\ raised = "ConnectTimeout"
    /\ is_in_error
    /\ ~_is_connected
    /\ ~had_at_least_one_block

\* C6: a connected session stays connected, and every check on it returns true and
\* raises nothing, whatever time has elapsed.
C6_ConnectedStays ==
    /\ [][_is_connected => _is_connected']_vars
    /\ [][(IsConnected /\ _is_connected)
            => last_check' = "true" /\ UNCHANGED exceptLastCheck]_vars

\* C6 witness: a check returned true on a connected session past the connection
\* timeout, with the keepalive finding the device silent.
C6_Witness ==
    /\ _is_connected
    /\ last_check = "true"
    /\ Elapsed > CONNECTION_TIMEOUT_IN_SECONDS
    /\ not_responding

\* C7: replace_status_block_segment is never called before the first full block.
C7_NoPartialBeforeFullBlock == ~replaced_unfilled

\* C8: a connected session has had a full block, has both layout classes and has its
\* accessors built; the step that connects it is taken with the transport open; and a
\* finalization with a layout class missing marks the session errored and leaves it
\* not connected.
C8_ConnectedOnlyWhenBuilt ==
    /\ [](_is_connected => /\ had_at_least_one_block
                           /\ new_config_class # None
                           /\ new_log_class # None
                           /\ accessors_built)
    /\ [][(~_is_connected /\ _is_connected') => isopen /\ had_at_least_one_block]_vars
    /\ [][(/\ LoopFunc
           /\ ~_is_connected /\ isopen /\ had_at_least_one_block
           /\ (new_config_class = None \/ new_log_class = None))
            => is_in_error' /\ ~_is_connected']_vars

\* C8 witness: a session that connected and whose transport was closed afterwards.
C8_Witness ==
    /\ _is_connected
    /\ accessors_built
    /\ ~isopen

\* C9: the dispatch path is never inside the blocking retry_request.
C9_DispatchNeverBlocks == dispatch # "retry_request"

\* C10: a handshake request whose datagram (or whose response) is lost is sent again or
\* reported failed: while the transport is open, every outstanding handshake request is
\* under way, connected to its response, or held by the retry engine.
C10_LostRequestIsRetried ==
    \A h \in handlers :
        (isopen /\ h[1] \in {"version", "channel", "config", "status_full"})
          => \/ h \in toDevice
             \/ h \in toClient
             \/ retry.request = h

\* C11: the keepalive thread ends only when the transport is closed: while the
\* transport is open the thread has neither returned nor died, whatever the handshake
\* state, the error flag and the time elapsed.
C11_KeepaliveEndsOnlyOnClose == isopen => ping_thread \notin {"dead", "finished"}

\* C12: complete() closes the transport and then waits for the ping thread; a complete()
\* that is waiting returns in the end; it returns only once the thread has ended; and
\* after it has returned the thread takes no step and nothing is sent.
C12_TeardownIsAwaited ==
    /\ [](complete_call # "none" => ~isopen)
    /\ [](complete_call = "returned" => ping_thread \in {"dead", "finished"})
    /\ [][complete_call = "returned"
            => /\ ping_thread' = ping_thread
               /\ sent' = sent
               /\ toDevice' = toDevice]_vars
    /\ (complete_call = "join") ~> (complete_call = "returned")

\* C12 witness: a connected session whose keepalive had requested a refresh was torn
\* down; the loop saw the closed transport and left, and complete() returned.
C12_Witness ==
    /\ complete_call = "returned"
    /\ ping_thread = "finished"
    /\ _is_connected
    /\ TimesSent("status_range") >= 1

\* The device's values as the handshake recorded them.
RecordedType == <<Lower(device[1]), "type">>
RecordedConfig == device[2]
RecordedLog == device[3]

\* A set-value command went out in this step.
SetValueSent ==
    /\ Len(sent') = Len(sent) + 1
    /\ sent'[Len(sent')][1] = "set_value"

\* C13: a value-change callback emits exactly one set-value command, and a set-value
\* command that goes out carries the number just taken from the shared counter, the
\* pack type, config revision and log revision the handshake recorded, and the
\* callback's offset, length and value; the step leaves the structure's bytes and the
\* connection state as they were.
C13_SetValueIsFramed ==
    /\ [][OnSetValue => SetValueSent]_vars
    /\ [][SetValueSent
            => /\ \E write \in Writes :
                    pack_command' = <<"set_value", sequence_counter, RecordedType,
                                      RecordedConfig, RecordedLog,
                                      write[1], write[2], write[3]>>
               /\ sent'[Len(sent')] = <<"set_value", sequence_counter>>
               /\ sequence_counter' = NextSequence(sequence_counter)
               /\ toDevice' = toDevice
               /\ UNCHANGED <<structure, had_at_least_one_block, conn, isopen,
                              layout, dispatch, keepalive, retry>>]_vars

\* C13 witness: a connected session has emitted a set-value command after another
\* pack command.
C13_Witness ==
    /\ _is_connected
    /\ pack_command # None
    /\ pack_command[1] = "set_value"
    /\ pack_command[4] # pack_command[5]
    /\ CommandsIssued = MaxCommands

\* Where in sent each request was transmitted first (hello carries no number).
FirstSends ==
    {i \in 1..Len(sent) : /\ sent[i][1] # "hello"
                          /\ \A j \in 1..(i - 1) : sent[j] # sent[i]}

\* The requests this step transmits for the first time.
NewlyIssued ==
    {i \in (Len(sent) + 1)..Len(sent') :
        /\ sent'[i][1] # "hello"
        /\ \A j \in 1..Len(sent) : sent[j] # sent'[i]}

\* C14: requests carry strictly increasing sequence numbers in issue order, so no two
\* requests of a session carry the same number; a step issues a request exactly when
\* it advances the shared counter, by one, and the request carries the number the
\* counter had; hello carries none, and a keepalive pass without a refresh takes none.
C14_SequenceNumbersAreFresh ==
    /\ [](\A i, j \in FirstSends : i < j => sent[i][2] < sent[j][2])
    /\ [](\A i \in 1..Len(sent) : sent[i][1] = "hello" => sent[i][2] = -1)
    /\ [][(sequence_counter' # sequence_counter) = (NewlyIssued # {})]_vars
    /\ [][NewlyIssued # {}
            => /\ Cardinality(NewlyIssued) = 1
               /\ \A i \in NewlyIssued : sent'[i][2] = sequence_counter
               /\ sequence_counter' = NextSequence(sequence_counter)]_vars
    /\ [][(PingIteration /\ ~_is_connected) => sequence_counter' = sequence_counter]_vars

\* C14 witness: version, channel, config-file, full status, refresh, set-value and
\* keypress requests have all been issued, and one request was transmitted twice.
C14_Witness ==
    /\ \A k \in {"version", "channel", "config", "status_full", "status_range",
                  "set_value", "keypress"} : TimesSent(k) >= 1
    /\ \E k \in {"status_full", "status_range"} : TimesSent(k) = 2

\* The block after each record of the list has gone to replace_status_block_segment
\* once, the first record first.
AppliedOnce(block, list) ==
    LET after[k \in 0..Len(list)] ==
            IF k = 0 THEN block
            ELSE ReplaceStatusBlockSegment(after[k - 1], list[k][1], list[k][2])
    IN after[Len(list)]

\* C15: _on_partial_status_update applies every record of the handler's list once, in
\* receipt order (an empty list changes nothing), and leaves the list empty; so the
\* list holds nothing between dispatches, and what a later update's dispatch applies
\* is that update's records only.
C15_RecordsAppliedOnceInOrder ==
    /\ [](dispatch # "partial_status" => changes = <<>>)
    /\ [][(dispatch = "idle" /\ dispatch' = "partial_status")
            => changes' \in Updates]_vars
    /\ [][(dispatch = "partial_status" /\ dispatch' = "idle")
            => /\ status_block' = AppliedOnce(status_block, changes)
               /\ changes' = <<>>]_vars

\* C15 witness: an update with records was handled before (its patch is in the block)
\* and a later update with two different records is being dispatched.
C15_Witness ==
    /\ replaced_unfilled
    /\ ~had_at_least_one_block
    /\ status_block # EmptyBlock
    /\ dispatch = "partial_status"
    /\ Len(changes) = 2
    /\ changes[1] # changes[2]

\* Record r patches byte i of the block (bytes are numbered from 1, offsets from 0).
Covers(r, i) == r[1] < i /\ i <= r[1] + Len(r[2])

\* The last record of the list that patches byte i (0: none does).
LastCovering(list, i) ==
    LET covering == {k \in 1..Len(list) : Covers(list[k], i)} IN
    IF covering = {} THEN 0
    ELSE CHOOSE k \in covering : \A other \in covering : other <= k

\* C16: after a partial update is applied to a block B, every byte inside a record's
\* range holds that record's byte (the later record's where records overlap) and
\* every byte outside all ranges holds B's.
C16_PatchInsideBlockOutside ==
    [][(dispatch = "partial_status" /\ dispatch' = "idle")
        => \A i \in 1..BlockLen :
             LET k == LastCovering(changes, i) IN
             status_block'[i] = IF k = 0 THEN status_block[i]
                                ELSE changes[k][2][i - changes[k][1]]]_vars

\* C16 witness: the structure took a full block and no record before it; since then a
\* partial update has changed a byte and left another as the full block had it.
C16_Witness ==
    /\ full_block # None
    /\ ~replaced_unfilled
    /\ dispatch = "idle"
    /\ \E i \in 1..BlockLen : status_block[i] # full_block[i]
    /\ \E i \in 1..BlockLen : status_block[i] = full_block[i] /\ status_block[i] # 0

\* C17: _last_ping changes only in the step that handles a ping response, which sets
\* it to the current time; the keepalive's step after its wait reports the device as
\* not responding exactly when the time since _last_ping exceeds the threshold, takes
\* the loop back to its top, and changes nothing else.
C17_LivenessSignalChangesNothing ==
    /\ [][_last_ping' # _last_ping => OnPingResponse /\ _last_ping' = now]_vars
    /\ [][PingWaited
            => /\ not_responding' =
                     (now - _last_ping > PING_DEVICE_NOT_RESPONDING_TIMEOUT)
               /\ ping_thread' = "top"
               /\ UNCHANGED <<apart, now, isopen, conn, _connection_started, layout,
                              had_at_least_one_block, net, dispatch, wait_started,
                              _last_ping, retry, device, lost, replaced_unfilled,
                              last_check, raised>>]_vars

\* C17 witness: on a connected session with the transport open the keepalive has
\* reported a device silent for longer than the threshold and is back at the top of
\* its loop, the session still connected and not errored.
C17_Witness ==
    /\ not_responding
    /\ now - _last_ping > PING_DEVICE_NOT_RESPONDING_TIMEOUT
    /\ ping_thread = "top"
    /\ isopen
    /\ _is_connected
    /\ ~is_in_error

RefreshIssued ==
    /\ Len(sent') = Len(sent) + 1
    /\ sent'[Len(sent')][1] = "status_range"
    /\ retry.owner = "none"

\* C19: a refresh request is issued only on a connected session, and it is scoped by a
\* log layout class that has been resolved; a keepalive pass on a session that is not
\* connected sends no request, and raises nothing but the connect timeout.
C19_RefreshOnlyWhenConnected ==
    /\ [][RefreshIssued
            => /\ _is_connected
               /\ new_log_class # None
               /\ sent'[Len(sent')][3] = new_log_class]_vars
    /\ [][(PingIteration /\ ~_is_connected)
            => /\ sent' = sent
               /\ toDevice' = toDevice
               /\ retry' = retry
               /\ raised' \in {raised, "ConnectTimeout"}]_vars
    /\ [](\A i \in 1..Len(sent) : sent[i][1] = "status_range" => _is_connected)

\* C19 witness: a keepalive pass before the session connected sent nothing, and a later
\* pass on the connected session issued a refresh request.
C19_Witness ==
    /\ _is_connected
    /\ ping_thread = "refresh"
    /\ retry.request[1] = "status_range"
    /\ retry.request[3] = new_log_class
    /\ wait_started > 0

\* The session was started and its transport has been closed.
Closed == _connection_started # None /\ ~isopen

\* C20: a session whose transport is closed while it is not connected stays closed and
\* never becomes connected, whether or not a full block has been applied.
C20_NoConnectAfterClose ==
    [][(Closed /\ ~_is_connected) => (Closed' /\ ~_is_connected')]_vars

\* C20 witness: the transport was closed after the first full block was applied and
\* before _loop_func finalized; teardown has finished and the session is not connected.
C20_Witness ==
    /\ Closed
    /\ had_at_least_one_block
    /\ new_config_class # None
    /\ new_log_class # None
    /\ ~_is_connected
    /\ complete_call = "returned"

====
